---- MODULE Spec2Model ----
(***************************************************************************)
(* Atmel SAM GMAC Ethernet driver (drivers/ethernet/eth_sam_gmac.c):       *)
(* the TX/RX descriptor rings of queue 0, the submitters running eth_tx,   *)
(* the interrupt handler queue0_isr and the GMAC's DMA engine.             *)
(***************************************************************************)
EXTENDS Integers, Sequences, FiniteSets, TLC

\* ------------------------------------------------------------------ bounds
TxLen == 3          \* tx_desc_list.len  (MAIN_QUEUE_TX_DESC_COUNT)
PktTxCount == 2     \* CONFIG_NET_PKT_TX_COUNT: TX frame containers of the pool
NThreads == 2       \* threads that call eth_tx
MaxFrags == 2       \* fragments of a submitted frame
MaxPkts == 3        \* eth_tx calls of a run with concurrent submitters
MaxPktsSingle == 4  \* eth_tx calls of a run with one submitter
MaxPktsAll == 2     \* eth_tx calls of a run with transmit and receive traffic
MaxTxErrors == 1    \* transmit errors the GMAC reports in a run
MaxRecoveries == 2  \* transmit error interrupts of a run of recoveries
MaxPktsErr == 2     \* eth_tx calls of a run of recoveries
RxLen == 3          \* rx_desc_list.len  (MAIN_QUEUE_RX_DESC_COUNT)
NBufs == 6          \* CONFIG_NET_BUF_RX_COUNT: RX data buffers of the pool
RxPktCount == 2     \* CONFIG_NET_PKT_RX_COUNT: RX frame containers of the pool
BufSize == 2        \* CONFIG_NET_BUF_DATA_SIZE
MaxRxFrames == 3    \* frames the GMAC receives in a run
MaxRxFramesAll == 2 \* the same, in a run with transmit and receive traffic
MaxRxErrors == 1    \* receive errors the GMAC reports in a run
MaxRxRecoveries == 2 \* receive error interrupts of a run of recoveries

Threads == 1..NThreads
Pkts == 1..MaxPktsSingle
Bufs == 1..NBufs
TxFramesLen == PktTxCount + 1   \* ARRAY_SIZE(tx_frame_list_que0)

\* ------------------------------------------------------------------ state
VARIABLES
    tx_desc,                \* tx_desc_list.buf: the TX descriptors
    tx_head,                \* tx_desc_list.head
    tx_tail,                \* tx_desc_list.tail
    tx_frames,              \* queue->tx_frames: ring of frame handles
    tx_desc_sem,            \* queue->tx_desc_sem: available count
    err_tx_flushed_count,   \* queue->err_tx_flushed_count
    ncr,                    \* GMAC_NCR: the enable bits that are set
    isr,                    \* GMAC_ISR: the interrupt status bits pending
    hw_tx,                  \* the GMAC transmit DMA: queue pointer and TXGO
    rx_desc,                \* rx_desc_list.buf: the RX descriptors
    rx_tail,                \* rx_desc_list.tail
    rx_frag_list,           \* queue->rx_frag_list.buf: the buffer posted per slot
    err_rx_frames_dropped,  \* queue->err_rx_frames_dropped
    err_rx_flushed_count,   \* queue->err_rx_flushed_count
    hw_rx,                  \* the GMAC receive DMA: queue pointer, frame so far
    buf_free,               \* the RX data buffers that are in the pool
    stack,                  \* the received frames the network stack holds
    hung,                   \* the interrupt handler is in a loop it never leaves
    th,                     \* every submitter's position inside eth_tx
    pkt,                    \* the frames handed to eth_tx: fragments, result
    next_pkt,               \* the next frame the network stack submits
    released,               \* handles the driver passed to net_pkt_unref
    asserts                 \* the __ASSERTs whose condition has been false

txq == <<tx_desc, tx_head, tx_tail, tx_frames, tx_desc_sem,
         err_tx_flushed_count>>
rxq == <<rx_desc, rx_tail, rx_frag_list, err_rx_frames_dropped,
         err_rx_flushed_count>>
rxenv == <<hw_rx, buf_free, stack, hung>>
callers == <<th, pkt, next_pkt>>

vars == <<txq, rxq, rxenv, callers, ncr, isr, hw_tx, released, asserts>>

\* The state as one record, for the handlers that are called from each other.
St == [tx_desc |-> tx_desc, tx_head |-> tx_head, tx_tail |-> tx_tail,
       tx_frames |-> tx_frames, tx_desc_sem |-> tx_desc_sem,
       err_tx_flushed_count |-> err_tx_flushed_count, ncr |-> ncr,
       isr |-> isr, hw_tx |-> hw_tx, released |-> released,
       asserts |-> asserts,
       rx_desc |-> rx_desc, rx_tail |-> rx_tail,
       rx_frag_list |-> rx_frag_list,
       err_rx_frames_dropped |-> err_rx_frames_dropped,
       err_rx_flushed_count |-> err_rx_flushed_count,
       hw_rx |-> hw_rx, buf_free |-> buf_free, stack |-> stack,
       hung |-> hung]

Commit(s) ==
    /\ tx_desc' = s.tx_desc
    /\ tx_head' = s.tx_head
    /\ tx_tail' = s.tx_tail
    /\ tx_frames' = s.tx_frames
    /\ tx_desc_sem' = s.tx_desc_sem
    /\ err_tx_flushed_count' = s.err_tx_flushed_count
    /\ ncr' = s.ncr
    /\ isr' = s.isr
    /\ hw_tx' = s.hw_tx
    /\ released' = s.released
    /\ asserts' = s.asserts
    /\ rx_desc' = s.rx_desc
    /\ rx_tail' = s.rx_tail
    /\ rx_frag_list' = s.rx_frag_list
    /\ err_rx_frames_dropped' = s.err_rx_frames_dropped
    /\ err_rx_flushed_count' = s.err_rx_flushed_count
    /\ hw_rx' = s.hw_rx
    /\ buf_free' = s.buf_free
    /\ stack' = s.stack
    /\ hung' = s.hung

\* ------------------------------------------------------- descriptor words
\* TX word 1: length, last-buffer, wrap and used fields.
TXW1(len, last, wrap, used) ==
    [len |-> len, last |-> last, wrap |-> wrap, used |-> used]

GMAC_TXW1_USED == TXW1(0, FALSE, FALSE, TRUE)
GMAC_TXW1_WRAP == TXW1(0, FALSE, TRUE, FALSE)

\* The bitwise or of two TX status words (a length is or-ed with length 0 only).
W1Or(a, b) ==
    [len |-> IF a.len = 0 THEN b.len ELSE a.len,
     last |-> a.last \/ b.last,
     wrap |-> a.wrap \/ b.wrap,
     used |-> a.used \/ b.used]

gmac_desc_set_w0(desc, i, value) == [desc EXCEPT ![i].w0 = value]

gmac_desc_set_w1(desc, i, value) == [desc EXCEPT ![i].w1 = value]

gmac_desc_append_w1(desc, i, value) ==
    gmac_desc_set_w1(desc, i, W1Or(desc[i].w1, value))

\* One store to descriptor i: word w0 or word w1 takes the value v.
DescStore(desc, i, wr) ==
    IF wr.w = "w0" THEN gmac_desc_set_w0(desc, i, wr.v)
    ELSE gmac_desc_set_w1(desc, i, wr.v)

MODULO_INC(val, max) == IF val + 1 < max THEN val + 1 ELSE 0

\* The failed assertion is recorded; the build without CONFIG_ASSERT goes on.
Check(s, cond, name) ==
    IF cond THEN s ELSE [s EXCEPT !.asserts = @ \cup {name}]

\* --------------------------------------------------------------- ring_buf
ring_buf_reset(rb) == [rb EXCEPT !.head = 0, !.tail = 0]

ring_buf_get_val(rb) == rb.buf[rb.tail]

ring_buf_get(rb) == [rb EXCEPT !.tail = MODULO_INC(rb.tail, rb.len)]

ring_buf_put(rb, val) ==
    [rb EXCEPT !.buf[rb.head] = val, !.head = MODULO_INC(rb.head, rb.len)]

\* ------------------------------------------------------------- tx_desc_sem
k_sem_init(limit) == limit

k_sem_give(count, limit) == IF count < limit THEN count + 1 ELSE count

k_sem_reset(count) == 0

RECURSIVE GiveTimes(_, _, _)
GiveTimes(count, limit, n) ==
    IF n = 0 THEN count ELSE GiveTimes(k_sem_give(count, limit), limit, n - 1)

\* --------------------------------------------------------- initialisation
\* tx_descriptors_init that leaves tail where it was.
tx_descriptors_init_keeps_tail(s) ==
    LET cleared == [i \in 0..(TxLen - 1) |-> [w0 |-> 0, w1 |-> GMAC_TXW1_USED]]
    IN  [s EXCEPT !.tx_head = 0,
                  !.tx_desc = gmac_desc_append_w1(cleared, TxLen - 1,
                                                  GMAC_TXW1_WRAP),
                  !.tx_frames = ring_buf_reset(s.tx_frames)]

tx_descriptors_init(s) ==
    LET cleared == [i \in 0..(TxLen - 1) |-> [w0 |-> 0, w1 |-> GMAC_TXW1_USED]]
    IN  [s EXCEPT !.tx_head = 0,
                  !.tx_tail = 0,
                  !.tx_desc = gmac_desc_append_w1(cleared, TxLen - 1,
                                                  GMAC_TXW1_WRAP),
                  !.tx_frames = ring_buf_reset(s.tx_frames)]

\* net_pkt_unref of a frame handle by the driver.
net_pkt_unref(s, p) == [s EXCEPT !.released = Append(@, p)]

\* ------------------------------------------------------------ tx_completed
RECURSIVE tx_completed_loop(_)
tx_completed_loop(s) ==
    IF s.tx_tail = s.tx_head THEN s
    ELSE LET i == s.tx_tail
             s1 == [s EXCEPT !.tx_tail = MODULO_INC(i, TxLen),
                             !.tx_desc_sem = k_sem_give(@, TxLen - 1)]
         IN  IF s.tx_desc[i].w1.last
             THEN LET s2 == Check(s1, s1.tx_frames.tail # s1.tx_frames.head,
                                  "ring_buf_get_empty")
                      p == ring_buf_get_val(s2.tx_frames)
                  IN  net_pkt_unref(
                          [s2 EXCEPT !.tx_frames = ring_buf_get(@)], p)
             ELSE tx_completed_loop(s1)

\* A tx_completed that goes on to the next frame after the first one.
tx_completed_two_frames(s) ==
    tx_completed_loop(tx_completed_loop(
        Check(s, s.tx_desc[s.tx_tail].w1.used, "tx_first_not_used")))

tx_completed(s) ==
    tx_completed_loop(
        Check(s, s.tx_desc[s.tx_tail].w1.used, "tx_first_not_used"))

\* -------------------------------------------------------- tx_error_handler
\* A flush that releases the slot at tail without looking at head.
tx_frames_flush_slot(s) ==
    net_pkt_unref(s, s.tx_frames.buf[s.tx_frames.tail])

RECURSIVE tx_frames_flush(_)
tx_frames_flush(s) ==
    IF s.tx_frames.tail = s.tx_frames.head THEN s
    ELSE tx_frames_flush(
             [net_pkt_unref(s, s.tx_frames.buf[s.tx_frames.tail])
                 EXCEPT !.tx_frames.tail = MODULO_INC(@, s.tx_frames.len)])

tx_error_handler(s) ==
    LET s1 == [s EXCEPT !.err_tx_flushed_count = @ + 1,
                        \* TXEN cleared: the GMAC stops and its transmit
                        \* queue pointer returns to the start of the list
                        !.ncr = @ \ {"TXEN"},
                        !.hw_tx = [ptr |-> 0, go |-> FALSE]]
        s2 == tx_frames_flush(s1)
        s3 == tx_descriptors_init(
                  [s2 EXCEPT !.tx_desc_sem = k_sem_reset(@)])
    IN  [s3 EXCEPT !.tx_desc_sem = GiveTimes(@, TxLen - 1, TxLen - 1),
                   !.ncr = @ \cup {"TXEN"}]

\* ---------------------------------------------------------- RX descriptors
\* RX word 0: buffer address, wrap and ownership fields.
RXW0(addr, wrap, own) == [addr |-> addr, wrap |-> wrap, own |-> own]

\* RX word 1: length, start-of-frame and end-of-frame fields.
RXW1(len, sof, eof) == [len |-> len, sof |-> sof, eof |-> eof]

RXW1_ZERO == RXW1(0, FALSE, FALSE)

U32 == 1073741824                  \* u32_t wrap-around, at the width TLC holds
NoBuf == 0                         \* NULL
RxFragListAddr == 0 - 1            \* (struct net_buf *)rx_frag_list->buf

BufData(b) == 4 * b                \* buf->data: word aligned, fixed per buffer

NoFrame == [has |-> FALSE, frags |-> <<>>]

FrameBufs(frags) == {frags[i].buf : i \in 1..Len(frags)}

\* net_pkt_get_reserve_rx_data / net_pkt_get_frag with K_NO_WAIT
net_pkt_get_frag(s) ==
    IF s.buf_free = {} THEN NoBuf
    ELSE CHOOSE b \in s.buf_free : \A c \in s.buf_free : b <= c

\* net_pkt_get_reserve_rx with K_NO_WAIT
net_pkt_get_reserve_rx(s) ==
    [has |-> Cardinality(s.stack) < RxPktCount, frags |-> <<>>]

net_buf_unref(s, b) == [s EXCEPT !.buf_free = @ \cup {b}]

\* net_pkt_unref of a received frame: its fragments return to the pool.
rx_frame_unref(s, frags) == [s EXCEPT !.buf_free = @ \cup FrameBufs(frags)]

RECURSIVE free_rx_bufs_loop(_, _)
free_rx_bufs_loop(s, i) ==
    IF i = RxLen THEN s
    ELSE free_rx_bufs_loop(net_buf_unref(s, RxFragListAddr), i + 1)

free_rx_bufs(s) == free_rx_bufs_loop(s, 0)

RECURSIVE rx_descriptors_init_loop(_, _)
rx_descriptors_init_loop(s, i) ==
    IF i = RxLen
    THEN [st |-> [s EXCEPT !.rx_desc[RxLen - 1].w0.wrap = TRUE],
          result |-> "ok"]
    ELSE LET rx_buf == net_pkt_get_frag(s)
         IN  IF rx_buf = NoBuf
             THEN [st |-> free_rx_bufs(s), result |-> "ENOBUFS"]
             ELSE rx_descriptors_init_loop(
                      [s EXCEPT
                         !.buf_free = @ \ {rx_buf},
                         !.rx_frag_list[i] = rx_buf,
                         !.rx_desc[i] = [w0 |-> RXW0(BufData(rx_buf),
                                                     FALSE, FALSE),
                                         w1 |-> RXW1_ZERO]],
                      i + 1)

\* rx_descriptors_init that leaves tail where it was.
rx_descriptors_init_keeps_tail(s) == rx_descriptors_init_loop(s, 0)

rx_descriptors_init(s) ==
    rx_descriptors_init_loop([s EXCEPT !.rx_tail = 0], 0)

\* ---------------------------------------------------------------- frame_get
\* The first loop (lines 705-711): is there a complete frame at the tail?
RECURSIVE frame_scan(_, _, _)
frame_scan(desc, tail, fuel) ==
    IF ~desc[tail].w0.own THEN "incomplete"
    ELSE IF desc[tail].w1.eof THEN "complete"
    ELSE IF fuel = 0 THEN "hang"
    ELSE frame_scan(desc, MODULO_INC(tail, RxLen), fuel - 1)

\* A drop that counts the frame and keeps its buffers.
rx_frame_drop_kept(s, rx_frame) == [s EXCEPT !.err_rx_frames_dropped = @ + 1]

\* No replacement buffer (lines 762-765): the frame is counted and released.
rx_frame_drop(s, rx_frame) ==
    [rx_frame_unref(s, rx_frame.frags) EXCEPT !.err_rx_frames_dropped = @ + 1]

\* A fragment length that takes the end-of-frame length for the fragment's.
rx_frag_len_whole(w1, frame_len) == IF w1.eof THEN w1.len ELSE BufSize

\* frag_len (lines 746-751): the end-of-frame descriptor has the length of
\* the whole frame.
rx_frag_len(w1, frame_len) ==
    IF w1.eof THEN (w1.len - frame_len) % U32 ELSE BufSize

\* A replacement that is taken from the pool and not recorded in the slot.
rx_slot_replace_unrecorded(s, tail, new_frag) ==
    [s EXCEPT !.buf_free = @ \ {new_frag}]

\* The replacement buffer leaves the pool (line 761) and takes the place of
\* the filled one in rx_frag_list (lines 774-775).
rx_slot_replace(s, tail, new_frag) ==
    [s EXCEPT !.buf_free = @ \ {new_frag}, !.rx_frag_list[tail] = new_frag]

\* A hand-back that clears the ownership bit and keeps the address field.
rx_desc_rearm_stale(s, tail) ==
    gmac_desc_set_w0(gmac_desc_set_w1(s.rx_desc, tail, RXW1_ZERO), tail,
                     [s.rx_desc[tail].w0 EXCEPT !.own = FALSE])

\* The two stores in the other order: the address word, then the status.
rx_desc_rearm_writes_addr_first(s, tail) ==
    <<[w |-> "w0", v |-> RXW0(BufData(s.rx_frag_list[tail]), tail = RxLen - 1,
                              FALSE)],
      [w |-> "w1", v |-> RXW1_ZERO]>>

\* The stores that give a descriptor back to the GMAC, in program order, the
\* barrier of line 786 between them: the status word is cleared (line 782),
\* then word 0 is written with the address of the slot's buffer and the wrap
\* bit, ownership clear (lines 788-790).
rx_desc_rearm_writes(s, tail) ==
    <<[w |-> "w1", v |-> RXW1_ZERO],
      [w |-> "w0", v |-> RXW0(BufData(s.rx_frag_list[tail]), tail = RxLen - 1,
                              FALSE)]>>

rx_desc_rearm(s, tail) ==
    LET wr == rx_desc_rearm_writes(s, tail)
    IN  DescStore(DescStore(s.rx_desc, tail, wr[1]), tail, wr[2])

\* The second loop (lines 737-794).
RECURSIVE frame_get_loop(_, _, _, _, _)
frame_get_loop(s, tail, frame_is_complete, frame_len, rx_frame) ==
    IF ~(s.rx_desc[tail].w0.own /\ ~frame_is_complete)
    THEN [st |-> [s EXCEPT !.rx_tail = tail], rx_frame |-> rx_frame]
    ELSE
    LET frag == s.rx_frag_list[tail]
        s0 == Check(s, BufData(frag) = s.rx_desc[tail].w0.addr, "rx_desync")
        eof == s.rx_desc[tail].w1.eof
        frag_len == rx_frag_len(s.rx_desc[tail].w1, frame_len)
        new_frag == IF rx_frame.has THEN net_pkt_get_frag(s0) ELSE NoBuf
        s1 == IF ~rx_frame.has THEN s0
              ELSE IF new_frag = NoBuf
              THEN rx_frame_drop(s0, rx_frame)
              ELSE rx_slot_replace(s0, tail, new_frag)
        f1 == IF ~rx_frame.has \/ new_frag = NoBuf THEN NoFrame
              ELSE [rx_frame EXCEPT
                      !.frags = Append(@, [buf |-> frag, len |-> frag_len])]
    IN  frame_get_loop([s1 EXCEPT !.rx_desc = rx_desc_rearm(s1, tail)],
                       MODULO_INC(tail, RxLen),
                       eof, (frame_len + frag_len) % U32, f1)

frame_get(s) ==
    LET found == frame_scan(s.rx_desc, s.rx_tail, RxLen - 1)
    IN  IF found = "hang"
        THEN [st |-> [s EXCEPT !.hung = TRUE], rx_frame |-> NoFrame]
        ELSE IF found = "incomplete"
        THEN [st |-> s, rx_frame |-> NoFrame]
        ELSE frame_get_loop(
                 Check(s, s.rx_desc[s.rx_tail].w1.sof, "rx_missing_sof"),
                 s.rx_tail, FALSE, 0, net_pkt_get_reserve_rx(s))

\* ------------------------------------------------------------------- eth_rx
\* A hand-over that drops the driver's reference whatever net_recv_data says.
rx_deliver_unref_always(s, frags, accepted) ==
    rx_frame_unref(IF accepted THEN [s EXCEPT !.stack = @ \cup {frags}] ELSE s,
                   frags)

\* net_recv_data and its result (lines 866-869): an accepted frame belongs to
\* the stack, a rejected one is released.
rx_deliver(s, frags, accepted) ==
    IF accepted THEN [s EXCEPT !.stack = @ \cup {frags}]
    ELSE rx_frame_unref(s, frags)

\* acc: the frames of this call (first, second, ...) that net_recv_data takes.
RECURSIVE eth_rx_loop(_, _, _)
eth_rx_loop(s, acc, n) ==
    LET got == frame_get(s)
    IN  IF ~got.rx_frame.has THEN got.st
        ELSE eth_rx_loop(rx_deliver(got.st, got.rx_frame.frags, n \in acc),
                         acc, n + 1)

eth_rx(s, acc) == eth_rx_loop(s, acc, 1)

\* --------------------------------------------------------- rx_error_handler
\* An rx_error_handler that keeps only the address field of word 0.
rx_error_handler_addr_only(s) ==
    [s EXCEPT
       !.err_rx_flushed_count = @ + 1,
       !.ncr = (@ \ {"RXEN"}) \cup {"RXEN"},
       !.hw_rx = [@ EXCEPT !.ptr = 0, !.infr = 0],
       !.rx_tail = 0,
       !.rx_desc = [i \in 0..(RxLen - 1) |->
                      [w0 |-> RXW0(s.rx_desc[i].w0.addr, FALSE, FALSE),
                       w1 |-> RXW1_ZERO]]]

rx_error_handler(s) ==
    [s EXCEPT
       !.err_rx_flushed_count = @ + 1,
       \* RXEN cleared and set again, GMAC_RBQB rewritten: the GMAC starts
       \* again at the first descriptor
       !.ncr = (@ \ {"RXEN"}) \cup {"RXEN"},
       !.hw_rx = [@ EXCEPT !.ptr = 0, !.infr = 0],
       !.rx_tail = 0,
       !.rx_desc = [i \in 0..(RxLen - 1) |->
                      [w0 |-> [s.rx_desc[i].w0 EXCEPT !.own = FALSE],
                       w1 |-> RXW1_ZERO]]]

\* --------------------------------------------------------------- queue0_isr
isr_rx(s, bits, acc) ==
    IF "RXERR" \in bits THEN rx_error_handler(s)
    ELSE IF "RCOMP" \in bits THEN eth_rx(s, acc)
    ELSE s

isr_tx(s, bits) ==
    IF "TXERR" \in bits THEN tx_error_handler(s)
    ELSE IF "TCOMP" \in bits THEN tx_completed(s)
    ELSE s

\* GMAC_ISR is read, which clears it; the RX part runs, then the TX part.
queue0_isr ==
    /\ isr # {}
    /\ ~hung
    /\ \E acc \in IF "RCOMP" \in isr /\ "RXERR" \notin isr
                   THEN SUBSET (1..RxLen) ELSE {{}} :
          Commit(isr_tx(isr_rx([St EXCEPT !.isr = {}], isr, acc), isr))
    /\ UNCHANGED callers

\* ------------------------------------------------------------------ eth_tx
FragData(p, k) == p * (MaxFrags + 1) + k     \* frag->data of fragment k of p
FragLen == 1                                 \* frag->len

\* The frames that hold a TX frame container of the pool.
Live == {p \in Pkts : pkt[p].ret = "busy"
                      \/ (pkt[p].ret = "ok"
                          /\ \A i \in 1..Len(released) : released[i] # p)}

\* The call returns r: its locals are gone.
ThreadIdle == [pc |-> "idle", pkt |-> 0, frag |-> 0, at_entry |-> 0]

eth_tx_return(t, r) ==
    /\ th' = [th EXCEPT ![t] = ThreadIdle]
    /\ pkt' = [pkt EXCEPT ![th[t].pkt] = [nfrags |-> 0, ret |-> r]]

\* Entry: the flush count is sampled (line 887), the first fragment is next.
\* The caller passes a frame of n fragments, the maxp-th of the run at most.
eth_tx_enter(t, n, maxp) ==
    /\ ~hung
    /\ th[t].pc = "idle"
    /\ next_pkt <= maxp
    /\ Cardinality(Live) < PktTxCount
    /\ th' = [th EXCEPT ![t] = [pc |-> "take", pkt |-> next_pkt, frag |-> 1,
                                at_entry |-> err_tx_flushed_count]]
    /\ pkt' = [pkt EXCEPT ![next_pkt] = [nfrags |-> n, ret |-> "busy"]]
    /\ next_pkt' = next_pkt + 1
    /\ UNCHANGED <<txq, rxq, rxenv, ncr, isr, hw_tx, released, asserts>>

\* k_sem_take(&queue->tx_desc_sem, K_FOREVER)
eth_tx_sem_take(t) ==
    /\ ~hung
    /\ th[t].pc = "take"
    /\ tx_desc_sem > 0
    /\ tx_desc_sem' = tx_desc_sem - 1
    /\ th' = [th EXCEPT ![t].pc = "post"]
    /\ UNCHANGED <<tx_desc, tx_head, tx_tail, tx_frames,
                   err_tx_flushed_count, rxq, rxenv, pkt, next_pkt, ncr, isr,
                   hw_tx, released, asserts>>

\* A descriptor write that leaves the wrap flag out of the status word.
post_fragment_no_wrap(s, p, k, n) ==
    LET h == s.tx_head
        d1 == gmac_desc_set_w0(s.tx_desc, h, FragData(p, k))
        d2 == gmac_desc_set_w1(d1, h, TXW1(FragLen, k = n, FALSE, FALSE))
    IN  [s EXCEPT !.tx_desc = d2, !.tx_head = MODULO_INC(h, TxLen)]

\* The two stores in the other order: the status word, then the address.
post_fragment_writes_status_first(s, p, k, n) ==
    <<[w |-> "w1", v |-> TXW1(FragLen, k = n, s.tx_head = TxLen - 1, FALSE)],
      [w |-> "w0", v |-> FragData(p, k)]>>

\* The stores that post fragment k of the n of frame p, in program order,
\* the barrier of line 933 between them: the address word (line 929), then
\* the status word with the used bit clear (lines 935-939).
post_fragment_writes(s, p, k, n) ==
    <<[w |-> "w0", v |-> FragData(p, k)],
      [w |-> "w1", v |-> TXW1(FragLen, k = n, s.tx_head = TxLen - 1, FALSE)]>>

\* The descriptor write of one fragment under irq_lock (lines 926-946).
post_fragment(s, p, k, n) ==
    LET h == s.tx_head
        wr == post_fragment_writes(s, p, k, n)
        d2 == DescStore(DescStore(s.tx_desc, h, wr[1]), h, wr[2])
        s1 == [s EXCEPT !.tx_desc = d2, !.tx_head = MODULO_INC(h, TxLen)]
    IN  Check(s1, s1.tx_head # s1.tx_tail, "tx_desc_list_overflow")

\* A submitter that does not look at the flush count.
tx_flushed_never(t) == FALSE

\* "Check if tx_error_handler() function was executed" (lines 921, 960).
tx_flushed(t) == err_tx_flushed_count # th[t].at_entry

\* One pass of the fragment loop under irq_lock (lines 918-951).
eth_tx_post(t) ==
    /\ ~hung
    /\ th[t].pc = "post"
    /\ IF tx_flushed(t)
       THEN /\ eth_tx_return(t, "eio")
            /\ UNCHANGED <<txq, rxq, rxenv, ncr, isr, hw_tx, released,
                           asserts>>
       ELSE /\ Commit(post_fragment(St, th[t].pkt, th[t].frag,
                                    pkt[th[t].pkt].nfrags))
            /\ th' = [th EXCEPT
                        ![t].frag = @ + 1,
                        ![t].pc = IF th[t].frag < pkt[th[t].pkt].nfrags
                                  THEN "take" ELSE "final"]
            /\ UNCHANGED pkt
    /\ UNCHANGED next_pkt

\* A sentinel written with gmac_desc_set_w1: the status word is replaced.
account_frame_set_w1(s, p) ==
    [s EXCEPT
       !.tx_desc = gmac_desc_set_w1(@, s.tx_head, GMAC_TXW1_USED),
       !.tx_frames = ring_buf_put(@, p)]

\* Lines 965-970: the sentinel, then the frame handle.
account_frame(s, p) ==
    LET s1 == [s EXCEPT
                 !.tx_desc = gmac_desc_append_w1(@, s.tx_head, GMAC_TXW1_USED),
                 !.tx_frames = ring_buf_put(@, p)]
    IN  Check(s1, s1.tx_frames.tail # s1.tx_frames.head, "ring_buf_overflow")

\* The last critical section (lines 957-972).
eth_tx_final(t) ==
    /\ ~hung
    /\ th[t].pc = "final"
    /\ IF tx_flushed(t)
       THEN /\ eth_tx_return(t, "eio")
            /\ UNCHANGED <<txq, rxq, rxenv, ncr, isr, hw_tx, released,
                           asserts>>
       ELSE /\ Commit(account_frame(St, th[t].pkt))
            /\ th' = [th EXCEPT ![t].pc = "start"]
            /\ UNCHANGED pkt
    /\ UNCHANGED next_pkt

\* gmac->GMAC_NCR |= GMAC_NCR_TSTART; return 0
eth_tx_start(t) ==
    /\ ~hung
    /\ th[t].pc = "start"
    /\ hw_tx' = [hw_tx EXCEPT !.go = "TXEN" \in ncr]
    /\ eth_tx_return(t, "ok")
    /\ UNCHANGED <<txq, rxq, rxenv, next_pkt, ncr, isr, released, asserts>>

\* ------------------------------------------------------- the GMAC, transmit
HwNext(desc, i) == IF desc[i].w1.wrap THEN 0 ELSE MODULO_INC(i, TxLen)

\* The last descriptor of the frame that starts at i, or -1 when the GMAC
\* reads a used descriptor before a last-buffer one.
RECURSIVE TxFrameEnd(_, _, _)
TxFrameEnd(desc, i, n) ==
    IF desc[i].w1.used \/ n = 0 THEN 0 - 1
    ELSE IF desc[i].w1.last THEN i
    ELSE TxFrameEnd(desc, HwNext(desc, i), n - 1)

\* A frame is transmitted: used is set in its first descriptor, TCOMP raised.
HwTxComplete ==
    /\ hw_tx.go
    /\ LET e == TxFrameEnd(tx_desc, hw_tx.ptr, TxLen)
       IN  /\ e >= 0
           /\ hw_tx' = [hw_tx EXCEPT !.ptr = HwNext(tx_desc, e)]
    /\ tx_desc' = [tx_desc EXCEPT ![hw_tx.ptr].w1.used = TRUE]
    /\ isr' = isr \cup {"TCOMP"}
    /\ UNCHANGED <<tx_head, tx_tail, tx_frames, tx_desc_sem,
                   err_tx_flushed_count, rxq, rxenv, callers, ncr, released,
                   asserts>>

\* The GMAC reads a used descriptor at the start of a frame and stops.
HwTxStop ==
    /\ hw_tx.go
    /\ tx_desc[hw_tx.ptr].w1.used
    /\ hw_tx' = [hw_tx EXCEPT !.go = FALSE]
    /\ UNCHANGED <<txq, rxq, rxenv, callers, ncr, isr, released, asserts>>

\* A transmit error (underrun, retry limit, frame corruption) while sending.
HwTxError ==
    /\ hw_tx.go
    /\ ~tx_desc[hw_tx.ptr].w1.used
    /\ "TXERR" \notin isr
    /\ err_tx_flushed_count < MaxTxErrors
    /\ isr' = isr \cup {"TXERR"}
    /\ UNCHANGED <<txq, rxq, rxenv, callers, ncr, hw_tx, released, asserts>>

\* -------------------------------------------------------- the GMAC, receive
HwRxNext(desc, i) == IF desc[i].w0.wrap THEN 0 ELSE MODULO_INC(i, RxLen)

\* The GMAC fills the buffer of the descriptor it owns: a frame's next
\* fragment, the last one (eof) with the frame's length.  maxf frames a run.
HwRxBuf(eof, len, maxf) ==
    LET i == hw_rx.ptr
        k == hw_rx.infr + 1
    IN  /\ "RXEN" \in ncr
        /\ ~rx_desc[i].w0.own
        /\ hw_rx.infr > 0 \/ hw_rx.count < maxf
        /\ eof \/ k < RxLen
        /\ len = IF eof THEN len ELSE 0
        /\ eof => len > (k - 1) * BufSize /\ len <= k * BufSize
        /\ rx_desc' = [rx_desc EXCEPT
                         ![i].w0.own = TRUE,
                         ![i].w1 = RXW1(len, hw_rx.infr = 0, eof)]
        /\ hw_rx' = [ptr |-> HwRxNext(rx_desc, i),
                     infr |-> IF eof THEN 0 ELSE k,
                     count |-> IF hw_rx.infr = 0 THEN hw_rx.count + 1
                               ELSE hw_rx.count]
        /\ isr' = IF eof THEN isr \cup {"RCOMP"} ELSE isr
        /\ UNCHANGED <<txq, rx_tail, rx_frag_list, err_rx_frames_dropped,
                       err_rx_flushed_count, buf_free, stack, hung, callers,
                       ncr, hw_tx, released, asserts>>

\* A receive error: no buffer available (RXUBR) or an overrun (ROVR).
HwRxError ==
    /\ "RXEN" \in ncr
    /\ rx_desc[hw_rx.ptr].w0.own \/ hw_rx.infr > 0
    /\ "RXERR" \notin isr
    /\ err_rx_flushed_count < MaxRxErrors
    /\ isr' = isr \cup {"RXERR"}
    /\ hw_rx' = [hw_rx EXCEPT !.infr = 0]
    /\ UNCHANGED <<txq, rxq, buf_free, stack, hung, callers, ncr, hw_tx,
                   released, asserts>>

\* The network stack is done with a received frame (net_pkt_unref).
StackFree ==
    /\ \E f \in stack :
          /\ stack' = stack \ {f}
          /\ buf_free' = buf_free \cup FrameBufs(f)
    /\ UNCHANGED <<txq, rxq, hw_rx, hung, callers, ncr, isr, hw_tx, released,
                   asserts>>

\* ----------------------------------------------------------- specification
\* The state queue_init and link_configure leave, all buffers in the pool.
Blank ==
    [tx_desc |-> <<>>, tx_head |-> 0, tx_tail |-> 0,
     tx_frames |-> [buf |-> [i \in 0..(TxFramesLen - 1) |-> 0],
                    head |-> 0, tail |-> 0, len |-> TxFramesLen],
     tx_desc_sem |-> 0, err_tx_flushed_count |-> 0,
     ncr |-> {}, isr |-> {}, hw_tx |-> [ptr |-> 0, go |-> FALSE],
     released |-> <<>>, asserts |-> {},
     rx_desc |-> [i \in 0..(RxLen - 1) |->
                    [w0 |-> RXW0(0, FALSE, FALSE), w1 |-> RXW1_ZERO]],
     rx_tail |-> 0, rx_frag_list |-> [i \in 0..(RxLen - 1) |-> NoBuf],
     err_rx_frames_dropped |-> 0, err_rx_flushed_count |-> 0,
     hw_rx |-> [ptr |-> 0, infr |-> 0, count |-> 0],
     buf_free |-> Bufs, stack |-> {}, hung |-> FALSE]

\* A queue_init whose semaphore counts every descriptor of the list.
queue_init_sem_len(s) ==
    LET rx == rx_descriptors_init(s)
    IN  IF rx.result # "ok" THEN rx
        ELSE [st |-> [tx_descriptors_init(rx.st) EXCEPT
                        !.tx_desc_sem = k_sem_init(TxLen),
                        !.err_rx_frames_dropped = 0,
                        !.err_rx_flushed_count = 0,
                        !.err_tx_flushed_count = 0],
              result |-> "ok"]

queue_init(s) ==
    LET rx == rx_descriptors_init(s)
    IN  IF rx.result # "ok" THEN rx
        ELSE [st |-> [tx_descriptors_init(rx.st) EXCEPT
                        !.tx_desc_sem = k_sem_init(TxLen - 1),
                        !.err_rx_frames_dropped = 0,
                        !.err_rx_flushed_count = 0,
                        !.err_tx_flushed_count = 0],
              result |-> "ok"]

Init ==
    LET s == [queue_init(Blank).st EXCEPT !.ncr = {"RXEN", "TXEN"}]
    IN  /\ tx_desc = s.tx_desc
        /\ tx_head = s.tx_head
        /\ tx_tail = s.tx_tail
        /\ tx_frames = s.tx_frames
        /\ tx_desc_sem = s.tx_desc_sem
        /\ err_tx_flushed_count = s.err_tx_flushed_count
        /\ ncr = s.ncr
        /\ isr = s.isr
        /\ hw_tx = s.hw_tx
        /\ released = s.released
        /\ asserts = s.asserts
        /\ rx_desc = s.rx_desc
        /\ rx_tail = s.rx_tail
        /\ rx_frag_list = s.rx_frag_list
        /\ err_rx_frames_dropped = s.err_rx_frames_dropped
        /\ err_rx_flushed_count = s.err_rx_flushed_count
        /\ hw_rx = s.hw_rx
        /\ buf_free = s.buf_free
        /\ stack = s.stack
        /\ hung = s.hung
        /\ th = [t \in Threads |-> ThreadIdle]
        /\ pkt = [p \in Pkts |-> [nfrags |-> 0, ret |-> "none"]]
        /\ next_pkt = 1

\* Concurrent submitters, the transmit DMA and the interrupt handler.
NextTx ==
    \/ \E t \in Threads, n \in 1..MaxFrags : eth_tx_enter(t, n, MaxPkts)
    \/ \E t \in Threads : eth_tx_sem_take(t)
    \/ \E t \in Threads : eth_tx_post(t)
    \/ \E t \in Threads : eth_tx_final(t)
    \/ \E t \in Threads : eth_tx_start(t)
    \/ queue0_isr
    \/ HwTxComplete
    \/ HwTxStop
    \/ HwTxError

SpecTx == Init /\ [][NextTx]_vars

\* The receive DMA, the interrupt handler and the network stack.
NextRx ==
    \/ \E eof \in BOOLEAN, len \in 0..(RxLen * BufSize) :
          HwRxBuf(eof, len, MaxRxFrames)
    \/ HwRxError
    \/ queue0_isr
    \/ StackFree

SpecRx == Init /\ [][NextRx]_vars

\* Transmit and receive traffic together, one submitter.
Next ==
    \/ \E n \in 1..MaxFrags : eth_tx_enter(1, n, MaxPktsAll)
    \/ eth_tx_sem_take(1)
    \/ eth_tx_post(1)
    \/ eth_tx_final(1)
    \/ eth_tx_start(1)
    \/ queue0_isr
    \/ HwTxComplete
    \/ HwTxStop
    \/ HwTxError
    \/ \E eof \in BOOLEAN, len \in 0..(RxLen * BufSize) :
          HwRxBuf(eof, len, MaxRxFramesAll)
    \/ HwRxError
    \/ StackFree

Spec == Init /\ [][Next]_vars

\* One submitter, single-fragment frames, no transmit error.
NextTx1 ==
    \/ eth_tx_enter(1, 1, MaxPktsSingle)
    \/ eth_tx_sem_take(1)
    \/ eth_tx_post(1)
    \/ eth_tx_final(1)
    \/ eth_tx_start(1)
    \/ queue0_isr
    \/ HwTxComplete
    \/ HwTxStop

SpecTx1 == Init /\ [][NextTx1]_vars

\* A transmit error interrupt in any state of the queue: tx_error_handler is
\* then entered from every state the submitters can leave the ring in.
TxErrorIrq ==
    /\ "TXERR" \notin isr
    /\ err_tx_flushed_count < MaxRecoveries
    /\ isr' = isr \cup {"TXERR"}
    /\ UNCHANGED <<txq, rxq, rxenv, callers, ncr, hw_tx, released, asserts>>

NextTxErr ==
    \/ \E t \in Threads, n \in 1..MaxFrags : eth_tx_enter(t, n, MaxPktsErr)
    \/ \E t \in Threads : eth_tx_sem_take(t)
    \/ \E t \in Threads : eth_tx_post(t)
    \/ \E t \in Threads : eth_tx_final(t)
    \/ \E t \in Threads : eth_tx_start(t)
    \/ queue0_isr
    \/ HwTxComplete
    \/ HwTxStop
    \/ TxErrorIrq

SpecTxErr == Init /\ [][NextTxErr]_vars

\* frame_get on any contents of the RX ring.  A descriptor the GMAC has not
\* written keeps the zero status word the driver gave it; one it has written
\* carries any status.  The buffers not posted are free or held by the stack,
\* one frame container each.
RxStatus ==
    {RXW1(0, sof, FALSE) : sof \in BOOLEAN}
      \cup {RXW1(len, sof, TRUE) : len \in 1..(RxLen * BufSize), sof \in BOOLEAN}

\* The frames of the stack that hold the buffers of the set held: a frame
\* for each buffer, or one frame for all of them.
HeldSingly(held) == {<<[buf |-> b, len |-> 1]>> : b \in held}

RECURSIVE HeldFrags(_)
HeldFrags(held) ==
    IF held = {} THEN <<>>
    ELSE LET b == CHOOSE x \in held : \A y \in held : x <= y
         IN  <<[buf |-> b, len |-> 1]>> \o HeldFrags(held \ {b})

HeldTogether(held) == IF held = {} THEN {} ELSE {HeldFrags(held)}

InitFrameGet ==
    LET s == [queue_init(Blank).st EXCEPT !.ncr = {"RXEN", "TXEN"}]
    IN  /\ tx_desc = s.tx_desc
        /\ tx_head = s.tx_head
        /\ tx_tail = s.tx_tail
        /\ tx_frames = s.tx_frames
        /\ tx_desc_sem = s.tx_desc_sem
        /\ err_tx_flushed_count = s.err_tx_flushed_count
        /\ ncr = s.ncr
        /\ isr = s.isr
        /\ hw_tx = s.hw_tx
        /\ released = s.released
        /\ asserts = s.asserts
        /\ \E own \in SUBSET (0..(RxLen - 1)) :
             \E w \in [own -> RxStatus] :
               rx_desc = [i \in 0..(RxLen - 1) |->
                            IF i \notin own THEN s.rx_desc[i]
                            ELSE [w0 |-> [s.rx_desc[i].w0 EXCEPT
                                            !.own = TRUE],
                                  w1 |-> w[i]]]
        /\ rx_tail \in 0..(RxLen - 1)
        /\ rx_frag_list = s.rx_frag_list
        /\ err_rx_frames_dropped = s.err_rx_frames_dropped
        /\ err_rx_flushed_count = s.err_rx_flushed_count
        /\ hw_rx = s.hw_rx
        /\ buf_free \in SUBSET s.buf_free
        /\ stack \in {HeldSingly(s.buf_free \ buf_free),
                      HeldTogether(s.buf_free \ buf_free)}
        /\ Cardinality(stack) <= RxPktCount
        /\ hung = s.hung
        /\ th = [t \in Threads |-> ThreadIdle]
        /\ pkt = [p \in Pkts |-> [nfrags |-> 0, ret |-> "none"]]
        /\ next_pkt = 1

\* One pass of the loop of eth_rx (lines 818-871): frame_get, and the frame
\* it returns goes to the stack, which keeps it.
frame_get_call ==
    /\ ~hung
    /\ LET got == frame_get(St)
       IN  Commit(IF got.rx_frame.has
                  THEN [got.st EXCEPT !.stack = @ \cup {got.rx_frame.frags}]
                  ELSE got.st)
    /\ UNCHANGED callers

NextFrameGet ==
    \/ frame_get_call
    \/ StackFree

SpecFrameGet == InitFrameGet /\ [][NextFrameGet]_vars

\* A receive error interrupt in any state of the RX ring.
RxErrorIrq ==
    /\ "RXERR" \notin isr
    /\ err_rx_flushed_count < MaxRxRecoveries
    /\ isr' = isr \cup {"RXERR"}
    /\ hw_rx' = [hw_rx EXCEPT !.infr = 0]
    /\ UNCHANGED <<txq, rxq, buf_free, stack, hung, callers, ncr, hw_tx,
                   released, asserts>>

NextRxErr ==
    \/ \E eof \in BOOLEAN, len \in 0..(RxLen * BufSize) :
          HwRxBuf(eof, len, MaxRxFramesAll)
    \/ RxErrorIrq
    \/ queue0_isr
    \/ StackFree

SpecRxErr == Init /\ [][NextRxErr]_vars

\* queue_init on the driver's storage in any state: descriptors with stale
\* ownership and wrap flags, any tail, part of the pool held by the stack.
InitBlank ==
    /\ tx_desc = [i \in 0..(TxLen - 1) |->
                    [w0 |-> 0, w1 |-> TXW1(0, FALSE, FALSE, FALSE)]]
    /\ tx_head = Blank.tx_head
    /\ tx_tail = Blank.tx_tail
    /\ tx_frames = Blank.tx_frames
    /\ tx_desc_sem = Blank.tx_desc_sem
    /\ err_tx_flushed_count = Blank.err_tx_flushed_count
    /\ ncr = Blank.ncr
    /\ isr = Blank.isr
    /\ hw_tx = Blank.hw_tx
    /\ released = Blank.released
    /\ asserts = Blank.asserts
    /\ \E own \in SUBSET (0..(RxLen - 1)), wrap \in SUBSET (0..(RxLen - 1)) :
          rx_desc = [i \in 0..(RxLen - 1) |->
                       [w0 |-> RXW0(0, i \in wrap, i \in own),
                        w1 |-> RXW1_ZERO]]
    /\ rx_tail \in 0..(RxLen - 1)
    /\ rx_frag_list = Blank.rx_frag_list
    /\ err_rx_frames_dropped = Blank.err_rx_frames_dropped
    /\ err_rx_flushed_count = Blank.err_rx_flushed_count
    /\ hw_rx = Blank.hw_rx
    /\ buf_free \in SUBSET Bufs
    /\ stack \in {HeldSingly(Bufs \ buf_free), HeldTogether(Bufs \ buf_free)}
    /\ Cardinality(stack) <= RxPktCount
    /\ hung = Blank.hung
    /\ th = [t \in Threads |-> ThreadIdle]
    /\ pkt = [p \in Pkts |-> [nfrags |-> 0, ret |-> "none"]]
    /\ next_pkt = 1

\* eth_initialize runs queue_init, once; the interface is started when it
\* succeeds, and a failed attempt is final. free_rx_bufs passes the address of
\* the rx_frag_list array, which is no net_buf, to net_buf_unref: the pool
\* takes it for a buffer and puts it on its free list, or does not.
queue_init_call ==
    /\ ncr = {}
    /\ RxFragListAddr \notin buf_free
    /\ rx_frag_list[0] = NoBuf
    /\ LET r == queue_init(St)
       IN  IF r.result = "ok"
           THEN Commit([r.st EXCEPT !.ncr = {"RXEN", "TXEN"}])
           ELSE \E pooled \in BOOLEAN :
                   Commit(IF pooled THEN r.st
                          ELSE [r.st EXCEPT
                                  !.buf_free = @ \ {RxFragListAddr}])
    /\ UNCHANGED callers

NextInit ==
    \/ queue_init_call
    \/ StackFree

SpecInit == InitBlank /\ [][NextInit]_vars

\* ------------------------------------------------- an idle priority queue
\* Lines 667-675: the single RX descriptor gets GMAC_RXW0_WRAP and status 0,
\* the single TX descriptor address 0 and GMAC_TXW1_USED | GMAC_TXW1_WRAP.
priority_queue_init_as_idle(s) ==
    [s EXCEPT
       !.rx_desc = gmac_desc_set_w1(
                       gmac_desc_set_w0(@, 0, RXW0(0, TRUE, FALSE)),
                       0, RXW1_ZERO),
       !.tx_desc = gmac_desc_set_w1(
                       gmac_desc_set_w0(@, 0, 0),
                       0, W1Or(GMAC_TXW1_USED, GMAC_TXW1_WRAP))]

\* The storage of a priority queue before eth0_iface_init: descriptor lists
\* of one entry each, with any contents.
InitIdle ==
    /\ \E addr \in {0, BufData(1)}, wrap \in BOOLEAN, own \in BOOLEAN,
          w1 \in RxStatus :
          rx_desc = [i \in {0} |-> [w0 |-> RXW0(addr, wrap, own), w1 |-> w1]]
    /\ \E addr \in {0, FragData(1, 1)}, len \in {0, FragLen},
          last \in BOOLEAN, wrap \in BOOLEAN, used \in BOOLEAN :
          tx_desc = [i \in {0} |->
                       [w0 |-> addr, w1 |-> TXW1(len, last, wrap, used)]]
    /\ tx_head = Blank.tx_head
    /\ tx_tail = Blank.tx_tail
    /\ tx_frames = Blank.tx_frames
    /\ tx_desc_sem = Blank.tx_desc_sem
    /\ err_tx_flushed_count = Blank.err_tx_flushed_count
    /\ ncr = Blank.ncr
    /\ isr = Blank.isr
    /\ hw_tx = Blank.hw_tx
    /\ released = Blank.released
    /\ asserts = Blank.asserts
    /\ rx_tail = Blank.rx_tail
    /\ rx_frag_list = Blank.rx_frag_list
    /\ err_rx_frames_dropped = Blank.err_rx_frames_dropped
    /\ err_rx_flushed_count = Blank.err_rx_flushed_count
    /\ hw_rx = Blank.hw_rx
    /\ buf_free = Blank.buf_free
    /\ stack = Blank.stack
    /\ hung = Blank.hung
    /\ th = [t \in Threads |-> ThreadIdle]
    /\ pkt = [p \in Pkts |-> [nfrags |-> 0, ret |-> "none"]]
    /\ next_pkt = 1

\* eth0_iface_init: the queue is set up as idle (lines 1110-1111), and
\* link_configure enables the receiver and the transmitter at the end.
idle_queue_init_call ==
    /\ ncr = {}
    /\ Commit([priority_queue_init_as_idle(St) EXCEPT
                 !.ncr = {"RXEN", "TXEN"}])
    /\ UNCHANGED callers

\* GMAC_NCR_TSTART, written by eth_tx for queue 0, starts the transmit DMA.
IdleTstart ==
    /\ "TXEN" \in ncr
    /\ ~hw_tx.go
    /\ hw_tx' = [hw_tx EXCEPT !.go = TRUE]
    /\ UNCHANGED <<txq, rxq, rxenv, callers, ncr, isr, released, asserts>>

NextIdle ==
    \/ idle_queue_init_call
    \/ \E eof \in BOOLEAN, len \in 0..BufSize : HwRxBuf(eof, len, 1)
    \/ IdleTstart
    \/ HwTxStop

SpecIdle == InitIdle /\ [][NextIdle]_vars

\* ------------------------------------------------------------------ claims
\* The j-th RX slot from the tail, j = 0, 1, ...
RxSlot(j) == (rx_tail + j) % RxLen

\* The k descriptors from the tail are a complete frame: all written by the
\* GMAC, end-of-frame on the last of them only.
RxRun(k) ==
    \A j \in 0..(k - 1) :
        /\ rx_desc[RxSlot(j)].w0.own
        /\ rx_desc[RxSlot(j)].w1.eof <=> (j = k - 1)

RxRunLen(k) == rx_desc[RxSlot(k - 1)].w1.len

\* A step of frame_get that processes descriptors.
RxProcessed == rx_desc' # rx_desc

RelCount(p) == Cardinality({i \in 1..Len(released) : released[i] = p})

AllIdle == \A t \in Threads : th[t].pc = "idle"

\* C1: a frame for which eth_tx returned 0 is released by the driver exactly
\* once (never twice, and it has been released once every posted descriptor
\* is reclaimed and no call is in progress); a frame for which eth_tx
\* returned -EIO is never released by the driver.
C1_ReleasedExactlyOnce ==
    \A p \in Pkts :
        /\ RelCount(p) <= 1
        /\ pkt[p].ret = "eio" => RelCount(p) = 0
        /\ (pkt[p].ret = "ok" /\ AllIdle /\ tx_tail = tx_head
              /\ isr = {} /\ ~hw_tx.go)
             => RelCount(p) = 1

Posted == (tx_head - tx_tail + TxLen) % TxLen

\* C2: whenever no eth_tx call is in progress, the available count of
\* tx_desc_sem plus the posted-but-not-reclaimed TX descriptors is len - 1.
C2_SemAccounting ==
    AllIdle => tx_desc_sem + Posted = TxLen - 1

TxQuiet == AllIdle /\ tx_tail = tx_head /\ isr = {} /\ ~hw_tx.go

\* C3: one submitter, N single-fragment frames, ring length C < N, no TX
\* error: the frames are released once each in the order of the eth_tx
\* calls (frames are numbered in call order), none is lost.
C3_ReleasedInOrder ==
    /\ \A i \in 1..Len(released) : released[i] = i
    /\ (next_pkt > MaxPktsSingle /\ TxQuiet)
         => Len(released) = MaxPktsSingle

\* C4: a call blocked in k_sem_take is not blocked forever.  With the other
\* submitters outside eth_tx, a submitter waits for a unit only while one can
\* still come: the count is positive, an interrupt is pending or the GMAC is
\* transmitting.
C4_SubmitterCanGoOn ==
    \A t \in Threads :
        (th[t].pc = "take" /\ \A u \in Threads \ {t} : th[u].pc = "idle")
        => (tx_desc_sem > 0 \/ isr # {} \/ hw_tx.go)

\* The frame a TX descriptor's address word points into.
PktOf(addr) == addr \div (MaxFrags + 1)

TxPopped ==
    /\ Len(released') = Len(released) + 1
    /\ err_tx_flushed_count' = err_tx_flushed_count

LastReclaimed == (tx_tail' + TxLen - 1) % TxLen

\* C5: the handle tx_completed pops on reaching a last-buffer descriptor is
\* the frame whose fragment was posted in that descriptor.
C5_PopsTheDescriptorsFrame ==
    [][(TxPopped /\ asserts' = {})
        => released'[Len(released')] = PktOf(tx_desc[LastReclaimed].w0)]_vars

\* The descriptors a step of tx_completed reclaims: from tail up to tail'.
Reclaimed ==
    IF tx_tail' = tx_tail \/ err_tx_flushed_count' # err_tx_flushed_count
    THEN {}
    ELSE {i \in 0..(TxLen - 1) :
            (i - tx_tail + TxLen) % TxLen < (tx_tail' - tx_tail + TxLen) % TxLen}

\* C6 as stated: tx_completed reclaims a descriptor only if its used bit is
\* set.
C6_ReclaimsOnlyUsed ==
    [][\A i \in Reclaimed : tx_desc[i].w1.used]_vars

\* C6, the first descriptor only: tx_completed starts reclaiming at a
\* descriptor whose used bit is set (the assertion of lines 405-407).
C6_ReclaimsFromUsedTail ==
    [][Reclaimed # {} => tx_desc[tx_tail].w1.used]_vars

\* A step of the submitter t.
StepOf(t) == th'[t] # th[t]

\* C7: once tx_error_handler has run during an eth_tx call, no step of the
\* call writes a TX descriptor, advances head or pushes onto tx_frames, and
\* the call returns -EIO from its next critical section.
C7_FlushedCallAborts ==
    [][\A t \in Threads :
         (/\ StepOf(t)
          /\ th[t].pc \in {"take", "post", "final"}
          /\ err_tx_flushed_count # th[t].at_entry)
         => /\ tx_desc' = tx_desc
            /\ tx_head' = tx_head
            /\ tx_frames' = tx_frames
            /\ th[t].pc \in {"post", "final"}
                 => (th'[t].pc = "idle" /\ pkt'[th[t].pkt].ret = "eio")]_vars

\* A call that posted a fragment, met a recovery and returned -EIO.
C7_Witness ==
    \E p \in Pkts :
        /\ pkt[p].ret = "eio"
        /\ err_tx_flushed_count > 0
        /\ \A i \in 1..Len(released) : released[i] # p

\* The handles in the tx_frames ring, oldest first.
RECURSIVE InFrames(_)
InFrames(rb) ==
    IF rb.tail = rb.head THEN <<>>
    ELSE <<rb.buf[rb.tail]>> \o InFrames(ring_buf_get(rb))

\* The TX queue as tx_error_handler leaves it.
TxReset ==
    /\ tx_frames.head = 0
    /\ tx_frames.tail = 0
    /\ tx_head = 0
    /\ tx_tail = 0
    /\ \A i \in 0..(TxLen - 1) : tx_desc[i].w0 = 0 /\ tx_desc[i].w1.used
    /\ tx_desc_sem = TxLen - 1

TxRecovered == err_tx_flushed_count' # err_tx_flushed_count

C9_SecondRecoveryIsIdle ==
    [][(TxRecovered /\ TxReset)
        => /\ TxReset'
           /\ tx_desc' = tx_desc
           /\ tx_frames' = tx_frames
           /\ released' = released]_vars

\* Two recoveries, nothing submitted after the first.
C9_Witness ==
    /\ err_tx_flushed_count = 2
    /\ TxReset
    /\ next_pkt = 2
    /\ released = <<1>>

\* C10: the wrap flag is set on the last slot of the TX ring and of the RX
\* ring, and on no other slot.
C10_WrapOnLastSlotOnly ==
    /\ \A i \in 0..(TxLen - 1) : tx_desc[i].w1.wrap = (i = TxLen - 1)
    /\ \A i \in 0..(RxLen - 1) : rx_desc[i].w0.wrap = (i = RxLen - 1)

\* A TX frame posted across the end of the ring, after frame_get has given
\* the last RX slot a new buffer.
C10_Witness ==
    /\ ~tx_desc[TxLen - 1].w1.used
    /\ ~tx_desc[TxLen - 1].w1.last
    /\ tx_desc[0].w1.last
    /\ PktOf(tx_desc[0].w0) = PktOf(tx_desc[TxLen - 1].w0)
    /\ rx_tail = 0
    /\ stack # {}

\* The frame frame_get builds of the first k slots when the run reports L.
RxFrameOf(k, L) ==
    [j \in 1..k |->
        [buf |-> rx_frag_list[RxSlot(j - 1)],
         len |-> IF j < k THEN BufSize ELSE L - (k - 1) * BufSize]]

RxRunSlots(k) == {RxSlot(j) : j \in 0..(k - 1)}

\* C11: a complete run of k descriptors whose end-of-frame descriptor
\* reports L, (k-1)*B < L <= k*B, all acquisitions succeeding: frame_get
\* returns the k posted buffers in ring order with lengths B, ..., B,
\* L-(k-1)*B, and k fresh buffers are posted into the k slots.
C11_FrameAssembled ==
    [][\A k \in 1..RxLen :
         (/\ RxProcessed
          /\ RxRun(k)
          /\ RxRunLen(k) > (k - 1) * BufSize
          /\ RxRunLen(k) <= k * BufSize
          /\ Cardinality(stack) < RxPktCount
          /\ Cardinality(buf_free) >= k)
         => /\ stack' = stack \cup {RxFrameOf(k, RxRunLen(k))}
            /\ \A i \in RxRunSlots(k) :
                  /\ rx_frag_list'[i] \in buf_free
                  /\ rx_desc'[i].w0.addr = BufData(rx_frag_list'[i])
            /\ Cardinality({rx_frag_list'[i] : i \in RxRunSlots(k)}) = k
            /\ buf_free' = buf_free \ {rx_frag_list'[i] : i \in RxRunSlots(k)}
            /\ \A i \in (0..(RxLen - 1)) \ RxRunSlots(k) :
                  rx_frag_list'[i] = rx_frag_list[i]]_vars

\* A frame of RxLen fragments, the last one shorter than a buffer, is with
\* the stack and every slot has a buffer that was not posted at first.
C11_Witness ==
    /\ \E f \in stack :
          /\ Len(f) = RxLen
          /\ \A j \in 1..(RxLen - 1) : f[j].len = BufSize
          /\ f[RxLen].len < BufSize
          /\ {f[j].buf : j \in 1..RxLen} = 1..RxLen
    /\ \A i \in 0..(RxLen - 1) : rx_frag_list[i] > RxLen

\* C12: no replacement buffer for one of the k fragments of a complete
\* frame: frame_get returns no frame, tail passes the k descriptors, which end
\* with status 0 and ownership cleared, every slot keeps one posted buffer,
\* and the buffers already linked into the frame are back in the pool.
C12_FrameDropped ==
    [][\A k \in 1..RxLen :
         (/\ RxProcessed
          /\ RxRun(k)
          /\ Cardinality(stack) < RxPktCount
          /\ Cardinality(buf_free) < k)
         => /\ stack' = stack
            /\ rx_tail' = RxSlot(k)
            /\ \A i \in RxRunSlots(k) :
                  /\ rx_desc'[i].w1 = RXW1_ZERO
                  /\ ~rx_desc'[i].w0.own
            /\ \A i \in 0..(RxLen - 1) :
                  /\ rx_frag_list'[i] \in Bufs \ buf_free'
                  /\ rx_desc'[i].w0.addr = BufData(rx_frag_list'[i])
            /\ Cardinality({rx_frag_list'[i] : i \in 0..(RxLen - 1)}) = RxLen
            /\ \A j \in 0..(Cardinality(buf_free) - 1) :
                  rx_frag_list[RxSlot(j)] \in buf_free']_vars

\* A frame was dropped at a later fragment: a buffer posted at first is back
\* in the pool and its slot has another one.
C12_Witness ==
    /\ err_rx_frames_dropped = 1
    /\ \E i \in 0..(RxLen - 1) :
          /\ rx_frag_list[i] > RxLen
          /\ (i + 1) \in buf_free
    /\ \E i \in 0..(RxLen - 1) : rx_frag_list[i] = i + 1

\* The descriptors written by the GMAC from the tail on, up to the first one
\* it has not written, carry no end-of-frame.
RxNoEofRun ==
    \E m \in 0..RxLen :
        /\ \A j \in 0..(m - 1) :
              rx_desc[RxSlot(j)].w0.own /\ ~rx_desc[RxSlot(j)].w1.eof
        /\ m < RxLen => ~rx_desc[RxSlot(m)].w0.own

\* C13: when the run of written descriptors at the tail has no end-of-frame,
\* frame_get returns NULL and changes neither the RX descriptors, the tail,
\* rx_frag_list nor the pool.
C13_IncompleteRunUntouched ==
    (RxNoEofRun /\ ~hung)
    => /\ ~frame_get(St).rx_frame.has
       /\ frame_get(St).st = St

\* The same while a descriptor the GMAC has not written ends the run.
C13_IncompleteRunEndsUntouched ==
    (RxNoEofRun /\ ~hung /\ \E i \in 0..(RxLen - 1) : ~rx_desc[i].w0.own)
    => /\ ~frame_get(St).rx_frame.has
       /\ frame_get(St).st = St

\* C14: frame_get returns in every state of the RX ring.
C14_FrameGetReturns == ~hung

\* C15: after a successful rx_descriptors_init every RX descriptor has the
\* ownership bit cleared, status 0 and the data address of the buffer of its
\* rx_frag_list slot, wrap is set on the last slot only, and tail is 0.
C15_RxRingInitialised ==
    [][(RxProcessed /\ rx_descriptors_init(St).result = "ok")
        => /\ \A i \in 0..(RxLen - 1) :
                 /\ ~rx_desc'[i].w0.own
                 /\ rx_desc'[i].w1 = RXW1_ZERO
                 /\ rx_frag_list'[i] \in Bufs
                 /\ rx_desc'[i].w0.addr = BufData(rx_frag_list'[i])
                 /\ rx_desc'[i].w0.wrap <=> (i = RxLen - 1)
           /\ rx_tail' = 0]_vars

\* A ring initialised while the stack held the first buffer of the pool.
C15_Witness ==
    /\ ncr # {}
    /\ stack # {}
    /\ rx_frag_list[0] > 1
    /\ rx_desc[0].w0.addr = BufData(rx_frag_list[0])

RxRecovered == err_rx_flushed_count' # err_rx_flushed_count

\* C16: rx_error_handler sets tail to 0 and clears every descriptor's status
\* word and ownership bit; address fields, wrap flags, rx_frag_list and the
\* pool are as before; run again on the state it leaves, it changes
\* err_rx_flushed_count only.
C16_RxRecoveryEffect ==
    [][RxRecovered
        => /\ rx_tail' = 0
           /\ \A i \in 0..(RxLen - 1) :
                 /\ rx_desc'[i].w1 = RXW1_ZERO
                 /\ ~rx_desc'[i].w0.own
                 /\ rx_desc'[i].w0.addr = rx_desc[i].w0.addr
                 /\ rx_desc'[i].w0.wrap = rx_desc[i].w0.wrap
           /\ rx_frag_list' = rx_frag_list
           /\ buf_free' = buf_free
           /\ stack' = stack
           /\ err_rx_flushed_count' = err_rx_flushed_count + 1
           /\ rx_error_handler(St') =
                 [St' EXCEPT !.err_rx_flushed_count = @ + 1]]_vars

\* Two recoveries in succession, the first one on a ring with a frame in it
\* and replaced buffers.
C16_Witness ==
    /\ err_rx_flushed_count = 2
    /\ hw_rx.count = MaxRxFramesAll
    /\ rx_tail = 0
    /\ \E i \in 0..(RxLen - 1) : rx_frag_list[i] > RxLen
    /\ \A i \in 0..(RxLen - 1) : ~rx_desc[i].w0.own

\* C17: in every reachable state the buffer recorded in rx_frag_list[i] is
\* the one RX descriptor i points to, and frame_get's "RX descriptor and
\* buffer list desynchronized" assertion has not failed.
C17_RxListsInSync ==
    /\ \A i \in 0..(RxLen - 1) :
          /\ rx_frag_list[i] \in Bufs
          /\ BufData(rx_frag_list[i]) = rx_desc[i].w0.addr
    /\ "rx_desync" \notin asserts

\* After a recovery, a frame was dropped for lack of buffers and another one
\* was received into replaced buffers.
C17_Witness ==
    /\ err_rx_flushed_count > 0
    /\ err_rx_frames_dropped > 0
    /\ stack # {}
    /\ \E i \in 0..(RxLen - 1) : rx_frag_list[i] > RxLen

\* The places that hold a reference to buffer b.
RxHolders(b) ==
    (IF b \in buf_free THEN {<<"pool">>} ELSE {})
      \cup {<<"slot", i>> : i \in {j \in 0..(RxLen - 1) : rx_frag_list[j] = b}}
      \cup UNION {{<<"stack", f, k>> : k \in {n \in DOMAIN f : f[n].buf = b}} :
                    f \in stack}

RxIsrStep == isr # {} /\ isr' = {}

\* C18: a frame frame_get returns in eth_rx goes to net_recv_data once and is
\* released by the driver once exactly when net_recv_data rejected it: every
\* buffer is at all times in one place only (the pool, one RX slot, or one
\* frame the stack holds), and an interrupt releases no frame the stack holds.
C18_FramesHandedOverOnce ==
    /\ [](\A b \in Bufs : Cardinality(RxHolders(b)) = 1)
    /\ [][RxIsrStep
            => /\ stack \subseteq stack'
               /\ \A f \in stack' : FrameBufs(f) \cap buf_free' = {}]_vars

\* Two frames were received without a drop or an error; the stack holds one
\* of them, the buffers of the other are back in the pool.
C18_Witness ==
    /\ hw_rx.count = 2
    /\ err_rx_frames_dropped = 0
    /\ err_rx_flushed_count = 0
    /\ isr = {}
    /\ \A i \in 0..(RxLen - 1) : ~rx_desc[i].w0.own
    /\ Cardinality(stack) = 1
    /\ \E f \in stack : Len(f) = 2
    /\ \E b \in buf_free : b <= RxLen

EthRxReturns == RxIsrStep /\ "RCOMP" \in isr /\ "RXERR" \notin isr

\* C19: when eth_rx returns, no run of ownership-set descriptors that starts
\* at the RX tail contains an end-of-frame descriptor.
C19_NoCompleteFrameLeft ==
    [][EthRxReturns
        => frame_scan(rx_desc', rx_tail', RxLen - 1) # "complete"]_vars

\* C20: whenever tx_completed reaches a descriptor with the last-buffer flag,
\* tx_frames is non-empty: ring_buf_get's "retrieving data from empty ring
\* buffer" assertion has not failed.
C20_TxFramesNonEmptyAtLast == "ring_buf_get_empty" \notin asserts

\* Thread t writes a descriptor in this step.
PostsFragment(t) == th[t].pc = "post" /\ th'[t].frag = th[t].frag + 1

\* C21: the fragments of a frame occupy consecutive TX slots: the slot
\* before the one a call writes its fragment k > 1 to holds fragment k - 1 of
\* the same frame.
C21_FragmentsContiguous ==
    [][\A t \in Threads :
         (PostsFragment(t) /\ th[t].frag > 1)
           => tx_desc[(tx_head + TxLen - 1) % TxLen].w0
                = FragData(th[t].pkt, th[t].frag - 1)]_vars

\* C22: after eth_tx advances the TX head, head differs from tail: the
\* "tx_desc_list overflow" assertion has not failed, and a step that writes a
\* descriptor finds fewer than len - 1 descriptors posted and not reclaimed.
C22_NoTxOverflow ==
    /\ []("tx_desc_list_overflow" \notin asserts)
    /\ [][(\E t \in Threads : PostsFragment(t))
            => /\ tx_head' # tx_tail'
               /\ Posted < TxLen - 1]_vars

\* After a recovery the ring is as full as the semaphore lets it be, and a
\* submitter waits for a unit.
C22_Witness ==
    /\ err_tx_flushed_count > 0
    /\ Posted = TxLen - 1
    /\ tx_desc_sem = 0
    /\ \E t \in Threads : th[t].pc = "take"

\* Thread t goes through the last critical section and pushes its frame.
MarksSentinel(t) == th[t].pc = "final" /\ th'[t].pc = "start"

\* The TX slots posted and not reclaimed.
TxPostedSlots == {(tx_tail + j) % TxLen : j \in 0..(Posted - 1)}

TxCompletedRuns == RxIsrStep /\ "TCOMP" \in isr /\ "TXERR" \notin isr

TxAdvance == (tx_tail' - tx_tail + TxLen) % TxLen

\* The TX slots tail has passed in this step.
TxPassed == {(tx_tail + j) % TxLen : j \in 0..(TxAdvance - 1)}

\* C24: one invocation of tx_completed releases at most one frame handle; it
\* stops behind the first last-buffer descriptor it reclaims, or at head when
\* there is none, and gives one tx_desc_sem unit per descriptor passed.
C24_OneFramePerInvocation ==
    [][TxCompletedRuns
        => /\ Len(released') \in {Len(released), Len(released) + 1}
           /\ tx_desc_sem' = tx_desc_sem + TxAdvance
           /\ TxPassed \subseteq TxPostedSlots
           /\ \A i \in TxPassed :
                 tx_desc[i].w1.last <=> (i = LastReclaimed)
                                          /\ Len(released') = Len(released) + 1
           /\ Len(released') = Len(released) => tx_tail' = tx_head]_vars

\* Two frames are completed, one invocation has released the first and left
\* the second one in the ring.
C24_Witness ==
    /\ isr = {}
    /\ Len(released) = 1
    /\ tx_tail = 1
    /\ tx_head = 2
    /\ hw_tx.ptr = 2
    /\ tx_desc[1].w1.last
    /\ tx_desc_sem = 1
    /\ tx_frames.tail # tx_frames.head

\* C25: once queue_init has succeeded, every RX slot records one buffer, no
\* two slots record the same one, and a buffer a slot records is neither in
\* a frame frame_get has returned nor in the pool.
C25_OneBufferPerSlot ==
    ncr # {}
      => /\ \A i \in 0..(RxLen - 1) :
               /\ rx_frag_list[i] \in Bufs
               /\ rx_frag_list[i] \notin buf_free
               /\ \A f \in stack : rx_frag_list[i] \notin FrameBufs(f)
         /\ \A i, j \in 0..(RxLen - 1) :
               rx_frag_list[i] = rx_frag_list[j] => i = j

\* A frame is with the stack, another one was dropped and its buffers are
\* back in the pool, the slots of both hold replaced buffers.
C25_Witness ==
    /\ ncr # {}
    /\ err_rx_frames_dropped > 0
    /\ \E f \in stack : Len(f) > 1
    /\ buf_free # {}
    /\ rx_frag_list[0] > RxLen
    /\ rx_frag_list[1] > RxLen

\* C26: a complete run at tail whose first descriptor has no start-of-frame
\* flag is skipped: frame_get returns no frame for it, its descriptors go
\* back to the GMAC and tail passes them.
C26_RunWithoutSofSkipped ==
    [][\A k \in 1..RxLen :
         (/\ RxProcessed
          /\ RxRun(k)
          /\ ~rx_desc[rx_tail].w1.sof)
         => /\ stack' = stack
            /\ rx_tail' = RxSlot(k)
            /\ \A i \in RxRunSlots(k) :
                  /\ rx_desc'[i].w1 = RXW1_ZERO
                  /\ ~rx_desc'[i].w0.own]_vars

\* C27: the length frame_get computes for the final fragment of a complete
\* run is between 0 and the buffer size, whatever length the end-of-frame
\* descriptor reports: every fragment of a frame it returns has such a length.
C27_FinalFragmentLengthBounded ==
    [][RxProcessed
        => \A f \in stack' \ stack :
              \A j \in 1..Len(f) : f[j].len \in 0..BufSize]_vars

\* C28: a complete frame frame_get takes from the ring without returning it
\* adds one to err_rx_frames_dropped; a frame it returns leaves the counter
\* as it is.
C28_DropsCounted ==
    [][(RxProcessed /\ \E k \in 1..RxLen : RxRun(k))
        => err_rx_frames_dropped'
             = err_rx_frames_dropped + (IF stack' = stack THEN 1 ELSE 0)]_vars

\* Descriptor i was given back to the GMAC in this step.
RxGivenBack(i) == rx_desc[i].w0.own /\ ~rx_desc'[i].w0.own

\* C29: frame_get clears the status word of a descriptor before it writes the
\* address word that clears the ownership bit: after each of the two stores
\* a descriptor that is not owned by software has status 0.
C29_StatusClearedBeforeGivenBack ==
    [][\A i \in 0..(RxLen - 1) :
         (RxProcessed /\ RxGivenBack(i))
           => LET wr == rx_desc_rearm_writes(St', i)
                  d1 == DescStore(rx_desc, i, wr[1])
                  d2 == DescStore(d1, i, wr[2])
              IN  /\ ~d1[i].w0.own => d1[i].w1 = RXW1_ZERO
                  /\ ~d2[i].w0.own /\ d2[i].w1 = RXW1_ZERO
                  /\ d2[i] = rx_desc'[i]]_vars

\* The descriptors of a two-buffer frame, flags and length in the status
\* word of the second, have been given back with new buffers.
C29_Witness ==
    /\ isr = {}
    /\ \E f \in stack : Len(f) = 2 /\ f[2].len = 1
    /\ rx_tail = 2
    /\ \A i \in 0..1 : /\ ~rx_desc[i].w0.own
                          /\ rx_desc[i].w1 = RXW1_ZERO
                          /\ rx_frag_list[i] > RxLen

\* C30: eth_tx writes the address word of a descriptor before the status
\* word that clears the used bit: the first store leaves the status word as
\* it was, and from that store on the address word is the fragment's data
\* address.
C30_AddressBeforeStatus ==
    [][\A t \in Threads :
         PostsFragment(t)
           => LET h == tx_head
                  p == th[t].pkt
                  k == th[t].frag
                  wr == post_fragment_writes(St, p, k, pkt[p].nfrags)
                  d1 == DescStore(tx_desc, h, wr[1])
                  d2 == DescStore(d1, h, wr[2])
              IN  /\ d1[h].w1 = tx_desc[h].w1
                  /\ d1[h].w0 = FragData(p, k)
                  /\ d2[h].w0 = FragData(p, k) /\ ~d2[h].w1.used
                  /\ d2[h] = tx_desc'[h]]_vars

\* The second fragment of a frame has been posted in a slot whose address
\* word held another frame's fragment.
C30_Witness ==
    \E t \in Threads :
        /\ th[t].pc = "final"
        /\ th[t].pkt = 2
        /\ th[t].frag = 3
        /\ tx_head = 0
        /\ tx_desc[TxLen - 1].w0 = FragData(2, 2)
        /\ ~tx_desc[TxLen - 1].w1.used
        /\ tx_desc[TxLen - 1].w1.last

\* queue_init is called and rx_descriptors_init finds no buffer for a slot.
InitFails ==
    /\ ncr = {}
    /\ stack' = stack
    /\ rx_descriptors_init(St).result = "ENOBUFS"

\* C31: when rx_descriptors_init cannot reserve a buffer for slot i, the i
\* buffers it has reserved are released once each and nothing else is: the
\* pool is as it was before the call; queue_init leaves tx_desc_sem, the TX
\* ring and the enable bits alone.
C31_FailedInitReleasesReserved ==
    [][InitFails
        => /\ buf_free' = buf_free
           /\ tx_desc_sem' = tx_desc_sem
           /\ tx_desc' = tx_desc
           /\ ncr' = ncr]_vars

\* C32: after priority_queue_init_as_idle the RX descriptor of the idle
\* queue has the ownership bit that keeps the GMAC from writing into it and
\* the wrap flag, the TX descriptor is used with the wrap flag: no frame is
\* received into the queue and none can be transmitted from it.
C32_IdleQueueStaysIdle ==
    ncr # {}
      => /\ rx_desc[0].w0.own
         /\ rx_desc[0].w0.wrap
         /\ tx_desc[0].w1.used
         /\ tx_desc[0].w1.wrap
         /\ hw_rx.count = 0
         /\ TxFrameEnd(tx_desc, hw_tx.ptr, 1) < 0

====
